---- MODULE Spec2Model ----
(***************************************************************************)
(* A model of elite-rs: the journal line decoder (src/journal/events.rs)   *)
(* and the journal aggregator (src/journal/mod.rs).                        *)
(*                                                                         *)
(* A JSON text is modelled by its parse tree; a line that is no JSON text  *)
(* at all is kept as raw text.  File names are sequences of byte codes, so *)
(* that the prefix test and the lexicographic order are computed.          *)
(***************************************************************************)
EXTENDS Integers, Sequences, FiniteSets, TLC

(* ----------------------------- bounds ---------------------------------- *)

\* Directory entries, of any name, where each journal file holds one line.
MaxEntries == 3
\* Journal files of a directory whose journal files hold any lines.
MaxJournals == 2
\* Lines over all the journal files of such a directory.
MaxTotalLines == 3
\* Integers offered to an integer field range over -IntSpan .. U8Max + IntSpan.
IntSpan == 3
\* Fields of one JSON object edited at once when decoder inputs are built.
MaxEdits == 1

(* ------------------------- program constants --------------------------- *)

\* The largest u8: bool_from_int reads its input with u8::deserialize.
U8Max == 255

(* ------------------------------ JSON ----------------------------------- *)

JNull == [k |-> "null"]
JBool(b) == [k |-> "bool", v |-> b]
JInt(n) == [k |-> "int", v |-> n]
\* A number written with a fraction or an exponent, in tenths: 1.5 is JFloat(15).
JFloat(t) == [k |-> "float", v |-> t]
JStr(s) == [k |-> "str", v |-> s]
JArr(seq) == [k |-> "arr", v |-> seq]
JObj(rec) == [k |-> "obj", v |-> rec]
\* A line that is not a JSON text: "" or blanks, or anything else unparsable.
RawText(s) == [k |-> "text", v |-> s]
\* A line whose bytes are not UTF-8: BufRead::lines fails on it.
BadUtf8 == [k |-> "bytes"]

Ok(x) == [ok |-> TRUE, val |-> x]
Err(e) == [ok |-> FALSE, err |-> e]

None == [some |-> FALSE]
Some(x) == [some |-> TRUE, val |-> x]

\* serde::de::Unexpected: how an error describes the value it met.  A scalar
\* is described with its value, null, an array and an object by kind only.
Unexpected(j) ==
    CASE j.k = "int" /\ j.v >= 0 -> [u |-> "Unsigned", v |-> j.v]
      [] j.k = "int" /\ j.v < 0 -> [u |-> "Signed", v |-> j.v]
      [] j.k = "float" -> [u |-> "Float", v |-> j.v]
      [] j.k = "bool" -> [u |-> "Bool", v |-> j.v]
      [] j.k = "str" -> [u |-> "Str", v |-> j.v]
      [] j.k = "null" -> [u |-> "Unit"]
      [] j.k = "arr" -> [u |-> "Seq"]
      [] j.k = "obj" -> [u |-> "Map"]

\* serde_json::Error, by category (Syntax, Eof, Data) and cause.
InvalidValue(unexp, expected) ==
    [category |-> "Data", cause |-> "invalid value", unexpected |-> unexp,
     expected |-> expected]
InvalidType(unexp, expected) ==
    [category |-> "Data", cause |-> "invalid type", unexpected |-> unexp,
     expected |-> expected]
MissingField(wire) ==
    [category |-> "Data", cause |-> "missing field", field |-> wire]
UnknownVariant(tag) ==
    [category |-> "Data", cause |-> "unknown variant", variant |-> tag]
EofError == [category |-> "Eof", cause |-> "EOF while parsing a value"]
SyntaxError == [category |-> "Syntax", cause |-> "expected value"]

(* --------------------------- scalar decoders --------------------------- *)

\* u8::deserialize: a JSON integer of 0 ..= 255.
DecodeU8(j) ==
    IF j.k = "int"
    THEN IF j.v >= 0 /\ j.v <= U8Max
         THEN Ok(j.v)
         ELSE Err(InvalidValue(Unexpected(j), "u8"))
    ELSE Err(InvalidType(Unexpected(j), "u8"))

\* u32 and u64: a JSON integer that is not negative.  The integers of the
\* model all lie below 2^32, so the upper end of the range is never met.
DecodeUnsigned(j, name) ==
    IF j.k = "int"
    THEN IF j.v >= 0
         THEN Ok(j.v)
         ELSE Err(InvalidValue(Unexpected(j), name))
    ELSE Err(InvalidType(Unexpected(j), name))

\* The mutant of bool_from_int: the integer is narrowed to u8 by truncation
\* (an `as u8` cast) instead of being range checked.
bool_from_int_truncating(j) ==
    IF j.k = "int"
    THEN LET b == j.v % (U8Max + 1)
         IN  IF b = 0 THEN Ok(FALSE)
             ELSE IF b = 1 THEN Ok(TRUE)
             ELSE Err(InvalidValue([u |-> "Unsigned", v |-> b],
                                   "Must be zero or one"))
    ELSE Err(InvalidType(Unexpected(j), "u8"))

\* bool_from_int: a u8 is read; 0 is false, 1 is true, another u8 is an
\* invalid value.  What is no u8 is the error of u8::deserialize.
bool_from_int(j) ==
    LET r == DecodeU8(j)
    IN  IF ~r.ok THEN r
        ELSE IF r.val = 0 THEN Ok(FALSE)
        ELSE IF r.val = 1 THEN Ok(TRUE)
        ELSE Err(InvalidValue([u |-> "Unsigned", v |-> r.val],
                              "Must be zero or one"))

\* f32, in tenths: an integer is accepted and converted.
DecodeF32(j) ==
    IF j.k = "int" THEN Ok(j.v * 10)
    ELSE IF j.k = "float" THEN Ok(j.v)
    ELSE Err(InvalidType(Unexpected(j), "f32"))

DecodeBool(j) ==
    IF j.k = "bool" THEN Ok(j.v) ELSE Err(InvalidType(Unexpected(j), "a boolean"))

DecodeString(j) ==
    IF j.k = "str" THEN Ok(j.v) ELSE Err(InvalidType(Unexpected(j), "a string"))

\* The ISO 8601 texts of the model and the instant each denotes, in minutes
\* after 2024-01-01T00:00:00Z; any other text is no timestamp.
T0 == "2024-01-01T00:00:00Z"
T1 == "2024-01-01T00:01:00Z"
T1Offset == "2024-01-01T01:01:00+01:00"
ParseIso8601(s) ==
    CASE s = T0 -> Ok([minutes |-> 0, offset |-> 0])
      [] s = T1 -> Ok([minutes |-> 1, offset |-> 0])
      [] s = T1Offset -> Ok([minutes |-> 1, offset |-> 60])
      [] OTHER -> Err(InvalidValue([u |-> "Str", v |-> s], "an ISO 8601 timestamp"))

\* time::serde::iso8601: a string that parses as a timestamp.
DecodeTimestamp(j) ==
    IF j.k = "str" THEN ParseIso8601(j.v)
    ELSE Err(InvalidType(Unexpected(j), "an ISO 8601 timestamp"))

(* ------------------------------ the schema ----------------------------- *)

TU32 == [t |-> "u32"]
TU64 == [t |-> "u64"]
TF32 == [t |-> "f32"]
TBool == [t |-> "bool"]
TString == [t |-> "String"]
TTimestamp == [t |-> "timestamp"]
TBoolFromInt == [t |-> "bool_from_int"]
TVec(ty) == [t |-> "Vec", of |-> ty]
TOption(ty) == [t |-> "Option", of |-> ty]
TStruct(name) == [t |-> "struct", name |-> name]
TEnum(name) == [t |-> "enum", name |-> name]
TEvent == [t |-> "Event"]

\* A required field and a field with #[serde(default)]: its name in the
\* model, its name on the wire, and its type.
F(rust, wire, ty) == [rust |-> rust, wire |-> wire, ty |-> ty, default |-> FALSE]
FD(rust, wire, ty) == [rust |-> rust, wire |-> wire, ty |-> ty, default |-> TRUE]

Timestamp == F("timestamp", "timestamp", TTimestamp)

\* The variants of Event that carry no field.
UnitVariants == {
    "ApproachBody", "Docked", "DockingCancelled", "DockingDenied",
    "DockingGranted", "DockingRequested", "DockingTimeout", "FSDJump",
    "FSDTarget", "LeaveBody", "Liftoff", "Location", "StartJump",
    "SupercruiseEntry", "SupercruiseExit", "Touchdown", "Undocked",
    "NavRoute", "NavRouteClear", "Bounty", "CapShipBond", "Died",
    "EscapeInterdiction", "FactionKillBond", "FighterDestroyed",
    "HeatDamage", "HeatWarning", "HullDamage", "Interdicted", "Interdiction",
    "PVPKill", "ShieldState", "ShipTargeted", "SRVDestroyed", "UnderAttack",
    "CodexEntry", "DiscoveryScan", "Scan", "FSSAllBodiesFound",
    "FSSBodySignals", "FSSDiscoveryScan", "FSSSignalDiscovered",
    "MaterialCollected", "MaterialDiscarded", "MaterialDiscovered",
    "MultiSellExplorationData", "NavBeaconScan", "BuyExplorationData",
    "SAAScanComplete", "SAASignalsFound", "ScanBaryCentre",
    "SellExplorationData", "Screenshot", "AsteroidCracked", "BuyTradeData",
    "CollectCargo", "EjectCargo", "MarketBuy", "MarketSell", "MiningRefined",
    "BuyAmmo", "BuyDrones", "CargoDepot", "CommunityGoal",
    "CommunityGoalDiscard", "CommunityGoalJoin", "CommunityGoalReward",
    "CrewAssign", "CrewFire", "CrewHire", "EngineerApply",
    "EngineerContribution", "EngineerCraft", "EngineerLegacyConvert",
    "EngineerProgress", "FetchRemoteModule", "Market", "MassModuleStore",
    "MaterialTrade", "MissionAbandoned", "MissionAccepted",
    "MissionCompleted", "MissionFailed", "MissionRedirected", "ModuleBuy",
    "ModuleRetrieve", "ModuleSell", "ModuleSellRemote", "ModuleStore",
    "ModuleSwap", "Outfitting", "PayBounties", "PayFines", "PayLegacyFines",
    "RedeemVoucher", "RefuelAll", "RefuelPartial", "Repair", "RepairAll",
    "RestockVehicle", "ScientificResearch", "SearchAndRescue", "SellDrones",
    "SellShipOnRebuy", "SetUserShipName", "Shipyard", "ShipyardBuy",
    "ShipyardNew", "ShipyardSell", "ShipyardTransfer", "ShipyardSwap",
    "StoredModules", "StoredShips", "TechnologyBroker", "ClearImpound",
    "PowerplayCollect", "PowerplayDefect", "PowerplayDeliver",
    "PowerplayFastTrack", "PowerplayJoin", "PowerplayLeave",
    "PowerplaySalary", "PowerplayVote", "PowerplayVoucher",
    "AppliedToSquadron", "DisbandedSquadron", "InvitedToSquadron",
    "JoinedSquadron", "KickedFromSquadron", "LeftSquadron",
    "SharedBookmarkToSquadron", "SquadronCreated", "SquadronDemotion",
    "SquadronPromotion", "SquadronStartup", "WonATrophyForSquadron",
    "CarrierJump", "CarrierBuy", "CarrierStats", "CarrierJumpRequest",
    "CarrierDecommission", "CarrierCancelDecommission",
    "CarrierBankTransfer", "CarrierDepositFuel", "CarrierCrewServices",
    "CarrierFinance", "CarrierShipPack", "CarrierModulePack",
    "CarrierTradeOrder", "CarrierDockingPermission", "CarrierNameChanged",
    "CarrierJumpCancelled", "Backpack", "BackpackChange",
    "BackpackMaterials", "BookDropship", "BookTaxi", "BuyMicroResources",
    "BuySuit", "BuyWeapon", "CancelDropship", "CancelTaxi", "CollectItems",
    "CreateSuitLoadout", "DeleteSuitLoadout", "Disembark", "DropItems",
    "DropShipDeploy", "Embark", "FCMaterials", "LoadoutEquipModule",
    "LoadoutRemoveModule", "RenameSuitLoadout", "Resupply", "ScanOrganic",
    "SellMicroResources", "SellOrganicData", "SellSuit", "SellWeapon",
    "ShipLocker", "SuitLoadout", "SwitchSuitLoadout",
    "TransferMicroResources", "TradeMicroResources", "UpgradeSuit",
    "UpgradeWeapon", "UseConsumable", "AfmuRepairs", "ApproachSettlement",
    "ChangeCrewRole", "CockpitBreached", "CommitCrime", "Continued",
    "CrewLaunchFighter", "CrewMemberJoins", "CrewMemberQuits",
    "CrewMemberRoleChange", "CrimeVictim", "DatalinkScan", "DatalinkVoucher",
    "DataScanned", "DockFighter", "DockSRV", "EndCrewSession",
    "FighterRebuilt", "FuelScoop", "Friends", "JetConeBoost",
    "JetConeDamage", "JoinACrew", "KickCrewMember", "LaunchDrone",
    "LaunchFighter", "LaunchSRV", "ModuleInfo", "Music", "NpcCrewPaidWage",
    "NpcCrewRank", "Promotion", "ProspectedAsteroid", "QuitACrew",
    "RebootRepair", "RepairDrone", "ReservoirReplenished", "Resurrect",
    "Scanned", "SelfDestruct", "Shutdown", "Synthesis", "SystemsShutdown",
    "USSDrop", "VehicleSwitch", "WingAdd", "WingInvite", "WingJoin",
    "WingLeave", "CargoTransfer", "SupercruiseDestinationDrop"
}

\* The variants of Event that carry fields.
StructVariants == {
    "Fileheader", "Cargo", "ClearSavedGame", "Commander", "Loadout",
    "Materials", "Missions", "NewCommander", "LoadGame", "Passengers",
    "Powerplay", "Progress", "Rank", "Reputation", "Statistics",
    "ReceiveText", "SendText"
}

EventVariants == UnitVariants \cup StructVariants

RankFields == <<
    Timestamp, F("combat", "Combat", TU32), F("trade", "Trade", TU32),
    F("explore", "Explore", TU32), F("soldier", "Soldier", TU32),
    F("exobiologist", "Exobiologist", TU32), F("empire", "Empire", TU32),
    F("federation", "Federation", TU32), F("cqc", "CQC", TU32) >>

\* The fields of each struct variant, in declaration order, under
\* rename_all_fields = "PascalCase" and the renames given per field.
VariantFields(tag) ==
    CASE tag = "Fileheader" -> <<
            Timestamp, F("part", "part", TU32), F("odyssey", "Odyssey", TBool),
            F("language", "language", TString),
            F("gameversion", "gameversion", TString),
            F("build", "build", TString) >>
      [] tag = "Cargo" -> <<
            Timestamp, F("vessel", "Vessel", TEnum("Vessel")),
            F("count", "Count", TU32),
            FD("inventory", "Inventory", TVec(TStruct("CargoEntry"))) >>
      [] tag \in {"ClearSavedGame", "Commander"} -> <<
            Timestamp, F("name", "Name", TString), F("fid", "FID", TString) >>
      [] tag = "Loadout" -> <<
            Timestamp, F("ship", "Ship", TString), F("ship_id", "ShipID", TU32),
            F("ship_name", "ShipName", TString),
            F("ship_ident", "ShipIdent", TString),
            F("hull_value", "HullValue", TU32),
            FD("modules_value", "ModulesValue", TU32),
            F("hull_health", "HullHealth", TF32),
            F("unladen_mass", "UnladenMass", TF32),
            F("fuel_capacity", "FuelCapacity", TStruct("FuelCapacity")),
            F("cargo_capacity", "CargoCapacity", TU32),
            F("max_jump_range", "MaxJumpRange", TF32),
            F("rebuy", "Rebuy", TU32), FD("hot", "Hot", TBool),
            F("modules", "Modules", TVec(TStruct("Module"))) >>
      [] tag = "Materials" -> <<
            Timestamp, F("raw", "Raw", TVec(TStruct("Material"))),
            F("manufactured", "Manufactured", TVec(TStruct("Material"))),
            F("encoded", "Encoded", TVec(TStruct("Material"))) >>
      [] tag = "Missions" -> <<
            Timestamp, F("active", "Active", TVec(TStruct("Mission"))),
            F("failed", "Failed", TVec(TStruct("Mission"))),
            F("complete", "Complete", TVec(TStruct("Mission"))) >>
      [] tag = "NewCommander" -> <<
            Timestamp, F("name", "Name", TString), F("fid", "FID", TString),
            F("package", "Package", TString) >>
      [] tag = "LoadGame" -> <<
            Timestamp, F("commander", "Commander", TString),
            F("fid", "FID", TString), F("horizons", "Horizons", TBool),
            F("odyssey", "Odyssey", TBool) >>
      [] tag = "Passengers" -> <<
            Timestamp,
            F("manifest", "Manifest", TVec(TStruct("PassengerRecord"))) >>
      [] tag = "Powerplay" -> <<
            Timestamp, F("power", "Power", TString), F("rank", "Rank", TU32),
            F("merits", "Merits", TU32), F("votes", "Votes", TU32),
            F("time_pledged", "TimePledged", TU32) >>
      [] tag \in {"Progress", "Rank"} -> RankFields
      [] tag = "Reputation" -> <<
            Timestamp, F("empire", "Empire", TF32),
            F("federation", "Federation", TF32),
            F("independent", "Independent", TF32),
            F("alliance", "Alliance", TF32) >>
      [] tag = "Statistics" -> <<
            Timestamp,
            F("bank_account", "Bank_Account", TStruct("BankAccountStatistics")),
            F("combat", "Combat", TStruct("CombatStatistics")),
            F("crime", "Crime", TStruct("CrimeStatistics")),
            F("smuggling", "Smuggling", TStruct("SmugglingStatistics")),
            F("trading", "Trading", TStruct("TradingStatistics")),
            F("mining", "Mining", TStruct("MiningStatistics")),
            F("exploration", "Exploration", TStruct("ExplorationStatistics")),
            F("passengers", "Passengers", TStruct("PassengersStatistics")),
            F("search_and_rescue", "Search_And_Rescue",
              TStruct("SearchAndRescueStatistics")),
            F("crafting", "Crafting", TStruct("CraftingStatistics")),
            F("crew", "Crew", TStruct("CrewStatistics")),
            F("multicrew", "Multicrew", TStruct("MulticrewStatistics")) >>
      [] tag = "ReceiveText" -> <<
            Timestamp, F("from", "From", TString),
            F("message", "Message", TString),
            F("channel", "Channel", TEnum("Channel")) >>
      [] tag = "SendText" -> <<
            Timestamp, F("to", "To", TString),
            F("message", "Message", TString) >>

\* The structs with no field at all.
EmptyStructs == {
    "CombatStatistics", "CrimeStatistics", "SmugglingStatistics",
    "TradingStatistics", "MiningStatistics", "ExplorationStatistics",
    "PassengersStatistics", "SearchAndRescueStatistics", "CraftingStatistics",
    "CrewStatistics", "MulticrewStatistics"
}

\* The fields of each payload struct, in declaration order.
StructFields(name) ==
    CASE name = "CargoEntry" -> <<
            F("name", "Name", TString), F("count", "Count", TU32),
            F("stolen", "Stolen", TU32),
            FD("mission_id", "MissionID", TOption(TU32)) >>
      [] name = "FuelCapacity" -> <<
            F("main", "Main", TF32), F("reserve", "Reserve", TF32) >>
      [] name = "Module" -> <<
            F("slot", "Slot", TString), F("item", "Item", TString),
            F("on", "On", TBool), F("priority", "Priority", TU32),
            F("health", "Health", TF32), FD("value", "Value", TU32),
            FD("ammo_in_clip", "AmmoInClip", TOption(TU32)),
            FD("ammo_in_hopper", "AmmoInHopper", TOption(TU32)),
            FD("engineering", "Engineering", TOption(TStruct("Engineering"))) >>
      [] name = "Engineering" -> <<
            F("engineer_id", "EngineerID", TU32),
            FD("engineer", "Engineer", TString),
            F("blueprint_id", "BlueprintID", TU32),
            F("blueprint_name", "BlueprintName", TString),
            F("level", "Level", TU32), F("quality", "Quality", TF32),
            FD("experimental_effect", "ExperimentalEffect", TOption(TString)),
            F("modifiers", "Modifiers", TVec(TStruct("EngineeringModifiers"))) >>
      [] name = "EngineeringModifiers" -> <<
            F("label", "Label", TString), FD("value", "Value", TOption(TF32)),
            F("original_value", "OriginalValue", TF32),
            F("less_is_good", "LessIsGood", TBoolFromInt) >>
      [] name = "Material" -> <<
            F("name", "Name", TString), F("count", "Count", TU32) >>
      [] name = "Mission" -> <<
            F("mission_id", "MissionID", TU32), F("name", "Name", TString),
            F("passenger_mission", "PassengerMission", TBool),
            F("expires", "Expires", TU32) >>
      [] name = "PassengerRecord" -> <<
            F("mission_id", "MissionID", TU32),
            F("passenger_type", "Type", TString), F("vip", "VIP", TBool),
            F("wanted", "Wanted", TBool), F("count", "Count", TU32) >>
      [] name = "BankAccountStatistics" -> <<
            F("current_wealth", "Current_Wealth", TU64),
            F("spent_on_ships", "Spent_On_Ships", TU64),
            F("spent_on_outfitting", "Spent_On_Outfitting", TU64),
            F("spent_on_repairs", "Spent_On_Repairs", TU64),
            F("spent_on_fuel", "Spent_On_Fuel", TU64),
            F("spent_on_ammo_consumables", "Spent_On_Ammo_Consumables", TU64),
            F("insurance_claims", "Insurance_Claims", TU32),
            F("spent_on_insurance", "Spent_On_Insurance", TU64),
            F("owned_ship_count", "Owned_Ship_Count", TU32),
            FD("spent_on_suits", "Spent_On_Suits", TU64),
            FD("spent_on_weapons", "Spent_On_Weapons", TU64),
            FD("spent_on_suit_consumables", "Spent_On_Suit_Consumables", TU64),
            FD("suits_owned", "Suits_Owned", TU32),
            FD("weapons_owned", "Weapons_Owned", TU32),
            FD("spent_on_premium_stock", "Spent_On_Premium_Stock", TU64),
            FD("premium_stock_bought", "Premium_Stock_Bought", TU64) >>
      [] name \in EmptyStructs -> << >>

\* The names on the wire of the variants of the two field-less enums.
EnumVariants(name) ==
    CASE name = "Vessel" -> {"Ship", "SRV"}
      [] name = "Channel" -> {"wing", "local", "voicechat", "friend",
                              "player", "npc", "squadron", "starsystem"}

\* Default::default() of a field's type.
DefaultValue(ty) ==
    CASE ty.t \in {"u32", "u64", "f32"} -> 0
      [] ty.t = "bool" -> FALSE
      [] ty.t = "String" -> ""
      [] ty.t = "Vec" -> << >>
      [] ty.t = "Option" -> None

(* ------------------------------ the decoder ---------------------------- *)

\* The least index of a sequence of results that is an error, 0 if none.
FirstErr(rs) ==
    IF \E i \in DOMAIN rs : ~rs[i].ok
    THEN CHOOSE i \in DOMAIN rs : ~rs[i].ok /\ \A h \in 1..(i - 1) : rs[h].ok
    ELSE 0

\* The mutant of MayBeAbsent: the default attribute is lost.
MayBeAbsentNever(f) == FALSE

\* true when the field may be left out: #[serde(default)], or an Option.
MayBeAbsent(f) == f.default \/ f.ty.t = "Option"

Scalars == {"int", "float", "bool", "str", "null"}

RECURSIVE DecodeTy(_, _)
RECURSIVE DecodeFields(_, _)

\* A derived struct (or struct variant) read from a JSON object: each key
\* that names a field is decoded, any other key is ignored; then a field
\* that did not occur takes its default, or is a missing field.  Of two
\* failures the one of the earlier declared field is reported.
DecodeFields(fields, obj) ==
    LET idx == DOMAIN fields
        present(i) == fields[i].wire \in DOMAIN obj
        rs == [i \in idx |->
                 IF present(i) THEN DecodeTy(fields[i].ty, obj[fields[i].wire])
                 ELSE IF MayBeAbsent(fields[i])
                      THEN Ok(DefaultValue(fields[i].ty))
                      ELSE Err(MissingField(fields[i].wire))]
        presentRs == [i \in idx |-> IF present(i) THEN rs[i] ELSE Ok(0)]
        bad == FirstErr(presentRs)
        missing == FirstErr(rs)
        index(n) == CHOOSE i \in idx : fields[i].rust = n
    IN  IF bad # 0 THEN rs[bad]
        ELSE IF missing # 0 THEN rs[missing]
        ELSE Ok([n \in {fields[i].rust : i \in idx} |-> rs[index(n)].val])

\* Vec<T>: a JSON array, element by element.
DecodeVec(ty, j) ==
    IF j.k = "arr"
    THEN LET rs == [i \in DOMAIN j.v |-> DecodeTy(ty, j.v[i])]
             bad == FirstErr(rs)
         IN  IF bad # 0 THEN rs[bad]
             ELSE Ok([i \in DOMAIN j.v |-> rs[i].val])
    ELSE Err(InvalidType(Unexpected(j), "a sequence"))

\* A field-less enum (Vessel, Channel): the string naming a variant.  The
\* input is a scalar.
DecodeEnum(name, j) ==
    CASE j.k = "str" /\ j.v \in EnumVariants(name) -> Ok(j.v)
      [] j.k = "str" /\ j.v \notin EnumVariants(name) -> Err(UnknownVariant(j.v))
      [] j.k \in Scalars \ {"str"} -> Err(InvalidType(Unexpected(j), "enum"))

\* The mutant of DecodeUnitVariant: a unit variant refuses an object that
\* holds anything but the tag (#[serde(deny_unknown_fields)]).
DecodeUnitVariantStrict(tag, rest) ==
    IF DOMAIN rest = {} THEN Ok([variant |-> tag])
    ELSE Err([category |-> "Data", cause |-> "unknown field",
              field |-> CHOOSE n \in DOMAIN rest : TRUE])

\* A unit variant of the internally tagged Event: the rest of the object is
\* read and ignored.
DecodeUnitVariant(tag, rest) == Ok([variant |-> tag])

\* The mutant of DecodeUnknownTag: a tag that names no variant is taken
\* for a unit variant of that name (a catch-all #[serde(other)] variant).
DecodeUnknownTagAsBare(tag) == Ok([variant |-> tag])

\* A tag that names no variant of Event.
DecodeUnknownTag(tag) == Err(UnknownVariant(tag))

\* Event, tagged internally by "event": the tag selects the variant; a unit
\* variant reads nothing else of the object, a struct variant reads its
\* fields from it.  The input is an object or a scalar.
DecodeEvent(j) ==
    CASE j.k \in Scalars ->
            Err(InvalidType(Unexpected(j), "internally tagged enum Event"))
      [] j.k = "obj" /\ "event" \notin DOMAIN j.v -> Err(MissingField("event"))
      [] j.k = "obj" /\ "event" \in DOMAIN j.v ->
            LET tag == j.v["event"]
                rest == [n \in DOMAIN j.v \ {"event"} |-> j.v[n]]
            IN  IF tag.k # "str"
                THEN Err(InvalidType(Unexpected(tag), "variant identifier"))
                ELSE IF tag.v \in UnitVariants
                THEN DecodeUnitVariant(tag.v, rest)
                ELSE IF tag.v \in StructVariants
                THEN LET r == DecodeFields(VariantFields(tag.v), rest)
                     IN  IF r.ok THEN Ok([variant |-> tag.v] @@ r.val) ELSE r
                ELSE DecodeUnknownTag(tag.v)

DecodeTy(ty, j) ==
    CASE ty.t = "u32" -> DecodeUnsigned(j, "u32")
      [] ty.t = "u64" -> DecodeUnsigned(j, "u64")
      [] ty.t = "f32" -> DecodeF32(j)
      [] ty.t = "bool" -> DecodeBool(j)
      [] ty.t = "String" -> DecodeString(j)
      [] ty.t = "timestamp" -> DecodeTimestamp(j)
      [] ty.t = "bool_from_int" -> bool_from_int(j)
      [] ty.t = "enum" -> DecodeEnum(ty.name, j)
      [] ty.t = "Vec" -> DecodeVec(ty.of, j)
      [] ty.t = "Option" ->
            IF j.k = "null" THEN Ok(None)
            ELSE LET r == DecodeTy(ty.of, j)
                 IN  IF r.ok THEN Ok(Some(r.val)) ELSE r
      [] ty.t = "struct" /\ j.k = "obj" ->
            DecodeFields(StructFields(ty.name), j.v)
      [] ty.t = "struct" /\ j.k \in Scalars ->
            Err(InvalidType(Unexpected(j), ty.name))
      [] ty.t = "Event" -> DecodeEvent(j)

\* serde_json::from_str::<T>: a text that is no JSON value is a syntax error
\* (at the end of input when the text is empty or blank).
from_str(ty, line) ==
    IF line.k = "text"
    THEN IF line.v \in {"", " "} THEN Err(EofError) ELSE Err(SyntaxError)
    ELSE DecodeTy(ty, line)

(* --------------------------- decoder inputs ---------------------------- *)

\* A focus is the struct variant, unit variant, unknown tag or payload struct
\* whose JSON object an input varies.
Variant(tag) == [variant |-> TRUE, name |-> tag]
Struct(name) == [variant |-> FALSE, name |-> name]

FieldsOf(focus) ==
    IF focus.variant
    THEN IF focus.name \in StructVariants THEN VariantFields(focus.name)
         ELSE << >>
    ELSE StructFields(focus.name)

Wires(fields) == {fields[i].wire : i \in DOMAIN fields}
FieldOfWire(fields, w) == fields[CHOOSE i \in DOMAIN fields : fields[i].wire = w]

RECURSIVE SampleJson(_)
\* A well-formed JSON object of the fields, every field present.
SampleObj(fields) ==
    [w \in Wires(fields) |-> SampleJson(FieldOfWire(fields, w).ty)]

\* A well-formed JSON value of each type.
SampleJson(ty) ==
    CASE ty.t \in {"u32", "u64"} -> JInt(7)
      [] ty.t = "f32" -> JFloat(15)
      [] ty.t = "bool" -> JBool(TRUE)
      [] ty.t = "String" -> JStr("x")
      [] ty.t = "timestamp" -> JStr(T1)
      [] ty.t = "bool_from_int" -> JInt(1)
      [] ty.t = "enum" -> JStr(IF ty.name = "Vessel" THEN "Ship" ELSE "local")
      [] ty.t = "Vec" -> JArr(<< SampleJson(ty.of) >>)
      [] ty.t = "Option" -> SampleJson(ty.of)
      [] ty.t = "struct" -> JObj(SampleObj(StructFields(ty.name)))

\* The JSON text of Default::default() of a type that has one.
HasDefault(ty) == ty.t \in {"u32", "u64", "f32", "bool", "String", "Vec", "Option"}
DefaultJson(ty) ==
    CASE ty.t \in {"u32", "u64", "f32"} -> JInt(0)
      [] ty.t = "bool" -> JBool(FALSE)
      [] ty.t = "String" -> JStr("")
      [] ty.t = "Vec" -> JArr(<< >>)
      [] ty.t = "Option" -> JNull

\* A JSON value of the wrong type for a field of the type.
BadJson(ty) ==
    IF ty.t \in {"String", "timestamp", "enum"} THEN JInt(7) ELSE JStr("bad")

\* The object a focus starts from: its sample; a journal line of a tag
\* without fields still carries the timestamp the game writes.
BaseObj(focus) ==
    IF focus.variant /\ focus.name \notin StructVariants
    THEN [timestamp |-> JStr(T0)]
    ELSE SampleObj(FieldsOf(focus))

\* Keys that no variant and no struct models, with the values they take.
ExtraKeys == {"StationName", "to", "Extra"}
ExtraValues == {JStr("Jameson Memorial"), JNull, JObj([Name |-> JInt(1)])}

\* The new value of a key that an edit removes.
Removed == [k |-> "removed"]

\* The edits of one key of a focus's object: the key is removed, or set to
\* another value.
EditsOf(focus) ==
    LET fields == FieldsOf(focus)
        base == BaseObj(focus)
        tyOf(w) == FieldOfWire(fields, w).ty
    IN  UNION {{[key |-> w, to |-> x] : x \in {Removed, JNull, BadJson(tyOf(w))}} :
                w \in Wires(fields)}
        \cup {[key |-> w, to |-> DefaultJson(tyOf(w))] :
                w \in {u \in Wires(fields) : HasDefault(tyOf(u))}}
        \cup {[key |-> w, to |-> x] :
                w \in DOMAIN base \ Wires(fields),
                x \in {Removed, JNull, JStr("yesterday")}}
        \cup {[key |-> w, to |-> x] : w \in ExtraKeys, x \in ExtraValues}

RECURSIVE EditSetsUpTo(_, _)
\* Sets of at most n of the given edits, of distinct keys.
EditSetsUpTo(edits, n) ==
    IF n = 0 THEN {{}}
    ELSE LET less == EditSetsUpTo(edits, n - 1)
         IN  less \cup UNION {{es \cup {e} : e \in {x \in edits :
                                     \A y \in es : y.key # x.key}} : es \in less}

EditSets(focus) == EditSetsUpTo(EditsOf(focus), MaxEdits)

ApplyEdits(obj, es) ==
    LET removed == {e.key : e \in {x \in es : x.to = Removed}}
        set == {e.key : e \in {x \in es : x.to # Removed}}
    IN  [n \in (DOMAIN obj \cup set) \ removed |->
            IF n \in set THEN (CHOOSE e \in es : e.key = n).to ELSE obj[n]]

\* Where a payload struct occurs in a journal line: the variant or struct
\* that holds it, the field, and the way from the holder's decoded value to
\* the struct's.
Holder(name) ==
    CASE name = "CargoEntry" ->
            [in |-> Variant("Cargo"), wire |-> "Inventory", vec |-> TRUE,
             via |-> << "inventory", 1 >>]
      [] name = "FuelCapacity" ->
            [in |-> Variant("Loadout"), wire |-> "FuelCapacity", vec |-> FALSE,
             via |-> << "fuel_capacity" >>]
      [] name = "Module" ->
            [in |-> Variant("Loadout"), wire |-> "Modules", vec |-> TRUE,
             via |-> << "modules", 1 >>]
      [] name = "Engineering" ->
            [in |-> Struct("Module"), wire |-> "Engineering", vec |-> FALSE,
             via |-> << "engineering", "val" >>]
      [] name = "EngineeringModifiers" ->
            [in |-> Struct("Engineering"), wire |-> "Modifiers", vec |-> TRUE,
             via |-> << "modifiers", 1 >>]
      [] name = "Material" ->
            [in |-> Variant("Materials"), wire |-> "Raw", vec |-> TRUE,
             via |-> << "raw", 1 >>]
      [] name = "Mission" ->
            [in |-> Variant("Missions"), wire |-> "Active", vec |-> TRUE,
             via |-> << "active", 1 >>]
      [] name = "PassengerRecord" ->
            [in |-> Variant("Passengers"), wire |-> "Manifest", vec |-> TRUE,
             via |-> << "manifest", 1 >>]
      [] name = "BankAccountStatistics" ->
            [in |-> Variant("Statistics"), wire |-> "Bank_Account",
             vec |-> FALSE, via |-> << "bank_account" >>]

RECURSIVE Wrap(_, _)
\* The journal line that holds the object of a focus, everything around it
\* well-formed.
Wrap(focus, obj) ==
    IF focus.variant
    THEN JObj(("event" :> JStr(focus.name)) @@ obj)
    ELSE LET h == Holder(focus.name)
             inner == IF h.vec THEN JArr(<< JObj(obj) >>) ELSE JObj(obj)
         IN  Wrap(h.in, (h.wire :> inner) @@ BaseObj(h.in))

RECURSIVE PathOf(_)
\* The path from the decoded event to the value of a focus.
PathOf(focus) ==
    IF focus.variant THEN << >>
    ELSE PathOf(Holder(focus.name).in) \o Holder(focus.name).via

RECURSIVE Nav(_, _)
\* The part of a decoded value at the end of a path.
Nav(val, path) == IF path = << >> THEN val ELSE Nav(val[Head(path)], Tail(path))

FocusStructs == {
    "CargoEntry", "FuelCapacity", "Module", "Engineering",
    "EngineeringModifiers", "Material", "Mission", "PassengerRecord",
    "BankAccountStatistics"
}

\* Tags that name no variant: a new event kind, a known name in another
\* case or misspelt, the empty tag.
UnknownTags == {"Bogus", "docked", "DOCKED", "SendTxt", "FsdJump", ""}

Foci ==
    {Variant(t) : t \in EventVariants \cup UnknownTags}
    \cup {Struct(s) : s \in FocusStructs}

\* An input of the decoder: a line, with the focus and the focus's object.
EditedInput(focus, es) ==
    LET obj == ApplyEdits(BaseObj(focus), es)
    IN  [line |-> Wrap(focus, obj), focus |-> focus, obj |-> obj]

\* The values offered to a field read with bool_from_int.
BoolFromIntInputs ==
    {JInt(n) : n \in (0 - IntSpan)..(U8Max + IntSpan)}
    \cup {JFloat(10), JFloat(5), JStr("1"), JBool(TRUE), JNull,
          JArr(<< JInt(1) >>), JObj([val |-> JInt(1)])}

\* Lines that are no tagged object: no tag, a tag that is no string, a
\* value that is no object, a text that is no JSON.
UntaggedLines == {
    JObj([timestamp |-> JStr(T0)]),
    JObj([event |-> JInt(1), timestamp |-> JStr(T0)]),
    JObj([event |-> JNull]),
    JObj([Event |-> JStr("Docked")]),
    JInt(42), JStr("Docked"), JNull,
    RawText(""), RawText(" "), RawText("{")
}

DecodeInputs ==
    UNION {{EditedInput(f, es) : es \in EditSets(f)} : f \in Foci}
    \cup {EditedInput(Struct("EngineeringModifiers"),
                      {[key |-> "LessIsGood", to |-> x]}) :
            x \in BoolFromIntInputs}
    \cup {[line |-> l, focus |-> Struct("none"), obj |-> << >>] :
            l \in UntaggedLines}

(* ------------------------------ file names ----------------------------- *)

\* A file name is the sequence of its bytes.  Every path of the model lies
\* in the one directory journals_path() names, so a path is known by its
\* file name, and two paths compare as their file names do.

\* "Journal", the prefix of a journal file's name.
Prefix == << 74, 111, 117, 114, 110, 97, 108 >>

\* Journal files: the bare prefix, and parts whose lexicographic order is
\* not the order of their numbers ("Journal.10" before "Journal.2").
\* "Journal"
Journal_bare == << 74, 111, 117, 114, 110, 97, 108 >>
\* "Journal.01"
Journal_01 == << 74, 111, 117, 114, 110, 97, 108, 46, 48, 49 >>
\* "Journal.10"
Journal_10 == << 74, 111, 117, 114, 110, 97, 108, 46, 49, 48 >>
\* "Journal.2"
Journal_2 == << 74, 111, 117, 114, 110, 97, 108, 46, 50 >>
JournalNames == {Journal_bare, Journal_01, Journal_10, Journal_2}

\* The fixed names of the snapshot files.
\* "Backpack.json"
backpack_path == << 66, 97, 99, 107, 112, 97, 99, 107, 46, 106, 115, 111, 110 >>
\* "Cargo.json"
cargo_path == << 67, 97, 114, 103, 111, 46, 106, 115, 111, 110 >>
\* "Market.json"
market_path == << 77, 97, 114, 107, 101, 116, 46, 106, 115, 111, 110 >>
\* "ModulesInfo.json"
modules_info_path == << 77, 111, 100, 117, 108, 101, 115, 73, 110, 102, 111, 46, 106, 115, 111, 110 >>
\* "NavRoute.json"
nav_route_path == << 78, 97, 118, 82, 111, 117, 116, 101, 46, 106, 115, 111, 110 >>
\* "Outfitting.json"
outfitting_path == << 79, 117, 116, 102, 105, 116, 116, 105, 110, 103, 46, 106, 115, 111, 110 >>
\* "ShipLocker.json"
ship_locker_path == << 83, 104, 105, 112, 76, 111, 99, 107, 101, 114, 46, 106, 115, 111, 110 >>
\* "Shipyard.json"
shipyard_path == << 83, 104, 105, 112, 121, 97, 114, 100, 46, 106, 115, 111, 110 >>
\* "Status.json"
status_path == << 83, 116, 97, 116, 117, 115, 46, 106, 115, 111, 110 >>
SnapshotNames == {
    backpack_path, cargo_path, market_path, modules_info_path, nav_route_path,
    outfitting_path, ship_locker_path, shipyard_path, status_path
}

\* Other names: the prefix in lower case, inside the name, and cut short.
\* "journal.01"
Name_lower == << 106, 111, 117, 114, 110, 97, 108, 46, 48, 49 >>
\* "MyJournal.01"
Name_inside == << 77, 121, 74, 111, 117, 114, 110, 97, 108, 46, 48, 49 >>
\* "Journa"
Name_short == << 74, 111, 117, 114, 110, 97 >>
OtherNames == SnapshotNames \cup {Name_lower, Name_inside, Name_short}

(* ---------------------------- the aggregator --------------------------- *)

VARIABLES
    dirOk,      \* fs::read_dir succeeds, on the directory and on each entry
    dir,        \* the directory: file name -> whether it opens, and its lines
    op,         \* the operation called
    pc,         \* where the call stands
    paths,      \* all_events: what journal_files() returned
    fileIdx,    \* all_events: the file of paths being read
    lineIdx,    \* all_events: the line of that file being read
    events,     \* all_events: the local vector of events
    decoded,    \* all_events: the <<file, line number>> handed to from_str so far
    outcome,    \* how the call ended: "returned" or "panicked"
    result,     \* the Result the call returned
    input,      \* the decoder alone: the line given to from_str
    output      \* the decoder alone: what from_str returned

vars == << dirOk, dir, op, pc, paths, fileIdx, lineIdx, events, decoded,
           outcome, result, input, output >>

\* A file that opens, with its lines, and one that cannot be opened.
File(lines) == [opens |-> TRUE, lines |-> lines]
Unreadable == [opens |-> FALSE, lines |-> << >>]

\* io::Error, by its ErrorKind; a decode failure is kept inside as its source.
IoError(kind) == [kind |-> kind]

\* The ErrorKind of the failures the operating system answers fs::read_dir
\* and File::open with: the path is not there, or may not be read.
OsErrorKinds == {"NotFound", "PermissionDenied"}

\* From<serde_json::Error> for io::Error, applied by `?` in all_events.
ToIoError(e) ==
    [kind |-> IF e.category = "Eof" THEN "UnexpectedEof" ELSE "InvalidData",
     inner |-> e]

\* The mutant of starts_with: the name only has to hold the prefix somewhere.
ContainsPrefix(name, prefix) ==
    \E i \in 1..(Len(name) - Len(prefix) + 1) :
        SubSeq(name, i, i + Len(prefix) - 1) = prefix

\* str::starts_with
starts_with(name, prefix) ==
    /\ Len(name) >= Len(prefix)
    /\ \A i \in 1..Len(prefix) : name[i] = prefix[i]

RECURSIVE PathCmp(_, _)
\* Ord for PathBuf on two names of one directory: byte by byte, the shorter
\* first when it is a prefix of the longer.  -1, 0 or 1.
PathCmp(a, b) ==
    IF a = << >> THEN (IF b = << >> THEN 0 ELSE -1)
    ELSE IF b = << >> THEN 1
    ELSE IF Head(a) < Head(b) THEN -1
    ELSE IF Head(a) > Head(b) THEN 1
    ELSE PathCmp(Tail(a), Tail(b))

RECURSIVE Insert(_, _)
Insert(x, sorted) ==
    IF sorted = << >> THEN << x >>
    ELSE IF PathCmp(x, Head(sorted)) < 0 THEN << x >> \o sorted
    ELSE << Head(sorted) >> \o Insert(x, Tail(sorted))

RECURSIVE InsertionSort(_)
InsertionSort(seq) ==
    IF seq = << >> THEN << >> ELSE Insert(Head(seq), InsertionSort(Tail(seq)))

\* The mutant of sort: the paths stay in the order read_dir gave them.
Unsorted(seq) == seq

\* Vec::sort: the paths in ascending order.
sort(seq) == InsertionSort(seq)

\* The orders in which read_dir may list the entries of the directory.
Listings ==
    {l \in [1..Cardinality(DOMAIN dir) -> DOMAIN dir] :
        \A i, j \in DOMAIN l : i # j => l[i] # l[j]}

IsJournal(name) == starts_with(name, Prefix)

\* journal_files() on a directory that read_dir lists in the given order:
\* the entries whose name starts with "Journal", sorted; or the error of
\* read_dir, passed on by `?`.
journal_files(listing, fault) ==
    IF ~dirOk THEN Err(IoError(fault))
    ELSE Ok(sort(SelectSeq(listing, IsJournal)))

\* The mutant of LatestOf: the first path, not the last.
FirstOf(ps) == ps[1]

\* paths.last()
LatestOf(ps) == ps[Len(ps)]

(* ------------------------------ operations ----------------------------- *)

\* journal_files(), called by the command line or a library user.
JournalFiles ==
    /\ pc = "idle"
    /\ \E listing \in Listings, fault \in OsErrorKinds :
        /\ op' = "journal_files"
        /\ result' = journal_files(listing, fault)
        /\ outcome' = "returned"
        /\ pc' = "done"
    /\ UNCHANGED << dirOk, dir, paths, fileIdx, lineIdx, events, decoded,
                    input, output >>

\* latest_journal_path(): the last of journal_files(); expect() panics when
\* there is none.
LatestJournalPath ==
    /\ pc = "idle"
    /\ \E listing \in Listings, fault \in OsErrorKinds :
        LET files == journal_files(listing, fault)
        IN  /\ op' = "latest_journal_path"
            /\ pc' = "done"
            /\ IF ~files.ok
               THEN outcome' = "returned" /\ result' = files
               ELSE IF files.val = << >>
               THEN outcome' = "panicked" /\ UNCHANGED result
               ELSE outcome' = "returned" /\ result' = Ok(LatestOf(files.val))
    /\ UNCHANGED << dirOk, dir, paths, fileIdx, lineIdx, events, decoded,
                    input, output >>

\* all_events(), up to the outer loop: journal_files()? and the empty vector.
AllEventsBegin ==
    /\ pc = "idle"
    /\ \E listing \in Listings, fault \in OsErrorKinds :
        LET files == journal_files(listing, fault)
        IN  /\ op' = "all_events"
            /\ IF files.ok
               THEN /\ paths' = files.val
                    /\ fileIdx' = 1
                    /\ pc' = "file"
                    /\ UNCHANGED << outcome, result >>
               ELSE /\ outcome' = "returned"
                    /\ result' = files
                    /\ pc' = "done"
                    /\ UNCHANGED << paths, fileIdx >>
    /\ UNCHANGED << dirOk, dir, lineIdx, events, decoded, input, output >>

\* all_events(), the outer loop: the next path is opened, or the vector is
\* returned when there is none left.
AllEventsFile ==
    /\ pc = "file"
    /\ IF fileIdx > Len(paths)
       THEN /\ outcome' = "returned"
            /\ result' = Ok(events)
            /\ pc' = "done"
            /\ UNCHANGED lineIdx
       ELSE IF ~dir[paths[fileIdx]].opens
       THEN /\ outcome' = "returned"
            /\ \E fault \in OsErrorKinds : result' = Err(IoError(fault))
            /\ pc' = "done"
            /\ UNCHANGED lineIdx
       ELSE /\ lineIdx' = 1
            /\ pc' = "line"
            /\ UNCHANGED << outcome, result >>
    /\ UNCHANGED << dirOk, dir, op, paths, fileIdx, events, decoded,
                    input, output >>

\* The mutant of OnDecodeError: the line is skipped and the loop goes on.
SkipLine(e) ==
    /\ lineIdx' = lineIdx + 1
    /\ UNCHANGED << pc, outcome, result >>

\* all_events(), `?` on a line that from_str fails on: the error is
\* returned, as an io::Error.
OnDecodeError(e) ==
    /\ outcome' = "returned"
    /\ result' = Err(ToIoError(e))
    /\ pc' = "done"
    /\ UNCHANGED lineIdx

\* The mutant of AllEventsLine: a line that is empty or white space is passed
\* over, not decoded.
AllEventsLineSkipBlank ==
    /\ pc = "line"
    /\ LET lines == dir[paths[fileIdx]].lines
       IN  IF lineIdx > Len(lines)
           THEN /\ fileIdx' = fileIdx + 1
                /\ pc' = "file"
                /\ UNCHANGED << lineIdx, events, decoded, outcome, result >>
           ELSE IF lines[lineIdx] = BadUtf8
           THEN /\ outcome' = "returned"
                /\ result' = Err(IoError("InvalidData"))
                /\ pc' = "done"
                /\ UNCHANGED << fileIdx, lineIdx, events, decoded >>
           ELSE IF lines[lineIdx] \in {RawText(""), RawText(" ")}
           THEN /\ lineIdx' = lineIdx + 1
                /\ UNCHANGED << fileIdx, pc, events, decoded, outcome, result >>
           ELSE LET r == from_str(TEvent, lines[lineIdx])
                IN  /\ decoded' = Append(decoded, << paths[fileIdx], lineIdx >>)
                    /\ UNCHANGED fileIdx
                    /\ IF r.ok
                       THEN /\ events' = Append(events, r.val)
                            /\ lineIdx' = lineIdx + 1
                            /\ UNCHANGED << pc, outcome, result >>
                       ELSE /\ OnDecodeError(r.err)
                            /\ UNCHANGED events
    /\ UNCHANGED << dirOk, dir, op, paths, input, output >>

\* all_events(), the inner loop: the next line of the file is read and
\* decoded, its event pushed; or the file is at its end.
AllEventsLine ==
    /\ pc = "line"
    /\ LET lines == dir[paths[fileIdx]].lines
       IN  IF lineIdx > Len(lines)
           THEN /\ fileIdx' = fileIdx + 1
                /\ pc' = "file"
                /\ UNCHANGED << lineIdx, events, decoded, outcome, result >>
           ELSE IF lines[lineIdx] = BadUtf8
           THEN /\ outcome' = "returned"
                /\ result' = Err(IoError("InvalidData"))
                /\ pc' = "done"
                /\ UNCHANGED << fileIdx, lineIdx, events, decoded >>
           ELSE LET r == from_str(TEvent, lines[lineIdx])
                IN  /\ decoded' = Append(decoded, << paths[fileIdx], lineIdx >>)
                    /\ UNCHANGED fileIdx
                    /\ IF r.ok
                       THEN /\ events' = Append(events, r.val)
                            /\ lineIdx' = lineIdx + 1
                            /\ UNCHANGED << pc, outcome, result >>
                       ELSE /\ OnDecodeError(r.err)
                            /\ UNCHANGED events
    /\ UNCHANGED << dirOk, dir, op, paths, input, output >>

\* serde_json::from_str::<Event> on one line, as all_events calls it.
FromStr ==
    /\ pc = "decoder"
    /\ output' = from_str(TEvent, input.line)
    /\ pc' = "decoded"
    /\ UNCHANGED << dirOk, dir, op, paths, fileIdx, lineIdx, events, decoded,
                    outcome, result, input >>

(* ----------------------------- initial states -------------------------- *)

\* The lines of the journal files of the aggregator's runs.
LineDocked == JObj([event |-> JStr("Docked"), timestamp |-> JStr(T0)])
LineSendText ==
    JObj([event |-> JStr("SendText"), timestamp |-> JStr(T1),
          To |-> JStr("Alice"), Message |-> JStr("hi")])
LineUnknownTag == JObj([event |-> JStr("Bogus"), timestamp |-> JStr(T0)])
LineEmpty == RawText("")
LineBlank == RawText(" ")
AggLines == {LineDocked, LineSendText, LineUnknownTag, LineEmpty}

\* What a file that is no journal holds: the start of a JSON text spread
\* over several lines.
SnapshotFile == File(<< RawText("{") >>)

\* The journal files of at most n lines, all of them readable.
Contents(n) == {File(ls) : ls \in UNION {[1..m -> AggLines] : m \in 0..n}}

\* Journal files of which some cannot be opened or read to the end, or hold
\* a line of white space.
FaultyContents == {
    Unreadable, File(<< LineDocked >>), File(<< LineDocked, BadUtf8 >>),
    File(<< LineUnknownTag >>), File(<< LineDocked, LineBlank >>),
    File(<< LineBlank, LineDocked >>)
}

RECURSIVE Dirs(_, _)
\* The directories of the given journal names, of at most n lines in all.
Dirs(names, n) ==
    IF names = {} THEN {<< >>}
    ELSE LET name == CHOOSE x \in names : TRUE
         IN  UNION {{(name :> c) @@ d : d \in Dirs(names \ {name}, n - Len(c.lines))} :
                     c \in Contents(n)}

\* The sets of at most n of the names.
NameSets(universe, n) == {s \in SUBSET universe : Cardinality(s) <= n}

Idle ==
    /\ op = "none"
    /\ paths = << >>
    /\ fileIdx = 0
    /\ lineIdx = 0
    /\ events = << >>
    /\ decoded = << >>
    /\ outcome = "none"
    /\ result = Ok(<< >>)

NoInput == [line |-> JNull, focus |-> Struct("none"), obj |-> << >>]

\* Directories of journal files alone, of any lines.
InitLines ==
    /\ dirOk = TRUE
    /\ \E names \in NameSets(JournalNames, MaxJournals) :
        dir \in Dirs(names, MaxTotalLines)

\* Directories of journal files alone, some of them faulty.
InitFaults ==
    /\ dirOk = TRUE
    /\ \E names \in NameSets(JournalNames, MaxJournals) :
        dir \in [names -> FaultyContents]

\* Directories of any names, one line to each journal file.
InitNames ==
    /\ dirOk = TRUE
    /\ \E names \in NameSets(JournalNames \cup OtherNames, MaxEntries) :
        dir = [n \in names |-> IF n \in JournalNames THEN File(<< LineDocked >>)
                               ELSE SnapshotFile]

\* A journal directory that cannot be read.
InitNoDir ==
    /\ dirOk = FALSE
    /\ dir = << >>

Init ==
    /\ InitLines \/ InitFaults \/ InitNames \/ InitNoDir
    /\ pc = "idle"
    /\ Idle
    /\ input = NoInput
    /\ output = Ok(<< >>)

Next ==
    \/ JournalFiles
    \/ LatestJournalPath
    \/ AllEventsBegin
    \/ AllEventsFile
    \/ AllEventsLine

Spec == Init /\ [][Next]_vars

\* The decoder alone: from_str on each input line.
InitDecode ==
    /\ dirOk = TRUE
    /\ dir = << >>
    /\ pc = "decoder"
    /\ Idle
    /\ input \in DecodeInputs
    /\ output = Ok(<< >>)

NextDecode == FromStr

SpecDecode == InitDecode /\ [][NextDecode]_vars

(* ------------------------ what the claims speak of --------------------- *)

\* A name begins with "Journal".
HasJournalPrefix(n) == Len(n) >= Len(Prefix) /\ SubSeq(n, 1, Len(Prefix)) = Prefix

\* a comes strictly before b in the lexicographic order of bytes.
LexBefore(a, b) ==
    \E i \in 1..Len(b) :
        /\ i - 1 <= Len(a)
        /\ \A h \in 1..(i - 1) : a[h] = b[h]
        /\ (i = Len(a) + 1 \/ a[i] < b[i])

\* The journal files of the directory, and their sequence in ascending
\* lexicographic order of the names.
JournalSet == {n \in DOMAIN dir : HasJournalPrefix(n)}
Ascending ==
    CHOOSE s \in [1..Cardinality(JournalSet) -> JournalSet] :
        \A i, j \in DOMAIN s : i < j => LexBefore(s[i], s[j])

RECURSIVE LinesFrom(_, _)
\* The lines of the files of a sequence from the i-th on, file after file
\* and line after line, each as << file name, line number >>.
LinesFrom(files, i) ==
    IF i > Len(files) THEN << >>
    ELSE [h \in 1..Len(dir[files[i]].lines) |-> << files[i], h >>]
         \o LinesFrom(files, i + 1)

\* Every line of every journal file, in file-then-line order.
AllLines == LinesFrom(Ascending, 1)
LineAt(at) == dir[at[1]].lines[at[2]]

\* Reading the line fails (the file does not open, the bytes are no text).
IoFaultAt(at) == ~dir[at[1]].opens \/ LineAt(at) = BadUtf8
Unopened == {n \in JournalSet : ~dir[n].opens}

\* The line is read and fails to decode.
Undecodable(at) == ~IoFaultAt(at) /\ ~from_str(TEvent, LineAt(at)).ok

\* The tag of the line is a string that names no variant of Event.
HasUnknownTag(line) ==
    /\ line.k = "obj"
    /\ "event" \in DOMAIN line.v
    /\ line.v["event"].k = "str"
    /\ line.v["event"].v \notin EventVariants

\* The first line, in file-then-line order, that fails to decode; 0 if none.
FirstUndecodable ==
    IF \E i \in DOMAIN AllLines : Undecodable(AllLines[i])
    THEN CHOOSE i \in DOMAIN AllLines :
            /\ Undecodable(AllLines[i])
            /\ \A h \in 1..(i - 1) : ~Undecodable(AllLines[h])
    ELSE 0

\* No file before the i-th line's fails to open and no line before it fails
\* to be read.
NoIoFaultBefore(i) ==
    /\ \A h \in 1..i : ~IoFaultAt(AllLines[h])
    /\ \A n \in Unopened : LexBefore(AllLines[i][1], n)

AllEventsDone == op = "all_events" /\ pc = "done" /\ dirOk

(* -------------------------------- claims ------------------------------- *)

\* C1: when every line of every journal file decodes, all_events returns
\* the events of the journal files in ascending lexicographic order of the
\* file names, those of one file in line order, none missing, none
\* interleaved, whatever their timestamps.
C1_FileThenLineOrder ==
    (/\ AllEventsDone
     /\ Unopened = {}
     /\ \A i \in DOMAIN AllLines :
            ~IoFaultAt(AllLines[i]) /\ ~Undecodable(AllLines[i]))
    => /\ outcome = "returned"
       /\ result = Ok([i \in DOMAIN AllLines |->
                          from_str(TEvent, LineAt(AllLines[i])).val])

\* Two journal files, the earlier named one holding the later timestamp.
C1_Witness ==
    /\ AllEventsDone
    /\ result.ok
    /\ Len(paths) = 2
    /\ dir[paths[1]].lines = << LineSendText, LineDocked >>
    /\ dir[paths[2]].lines = << LineDocked >>
    /\ Len(result.val) = 3

\* C2: all_events is fail-fast: the first line, in file-then-line order,
\* that fails to decode ends the call with that line's failure and no event;
\* no later line is decoded.
C2_FailFast ==
    (AllEventsDone /\ FirstUndecodable # 0)
    => /\ outcome = "returned"
       /\ ~result.ok
       /\ DOMAIN result = {"ok", "err"}
       /\ \A i \in DOMAIN decoded : decoded[i] = AllLines[i]
       /\ Len(decoded) <= FirstUndecodable
       /\ NoIoFaultBefore(FirstUndecodable)
          => /\ result.err =
                   ToIoError(from_str(TEvent, LineAt(AllLines[FirstUndecodable])).err)
             /\ Len(decoded) = FirstUndecodable

\* A failure after an event was decoded, with lines left behind it.
C2_Witness ==
    /\ AllEventsDone
    /\ ~result.ok
    /\ FirstUndecodable = 2
    /\ Len(events) = 1
    /\ Len(AllLines) = 3
    /\ AllLines[3][1] # AllLines[2][1]

\* C3, as claimed: with no journal file, latest_journal_path returns an
\* error to its caller.
C3_NoJournalIsErrValue ==
    (op = "latest_journal_path" /\ pc = "done" /\ dirOk /\ JournalSet = {})
    => (outcome = "returned" /\ ~result.ok)

\* C4: with a journal file, latest_journal_path returns the last element of
\* what journal_files returns, the lexicographically greatest journal name.
C4_LatestIsGreatest ==
    (op = "latest_journal_path" /\ pc = "done" /\ dirOk /\ JournalSet # {})
    => /\ outcome = "returned"
       /\ result.ok
       /\ result.val \in JournalSet
       /\ \A n \in JournalSet \ {result.val} : LexBefore(n, result.val)
       /\ \A l \in Listings, f \in OsErrorKinds :
            LET files == journal_files(l, f).val
            IN  result.val = files[Len(files)]

\* Three journal files beside a file of another name.
C4_Witness ==
    /\ op = "latest_journal_path" /\ pc = "done"
    /\ Cardinality(JournalSet) >= 2
    /\ DOMAIN dir # JournalSet
    /\ result = Ok(Journal_2)

\* C5: a line whose tag names no variant fails to decode with an error that
\* names the tag; no event of an unknown variant is ever pushed, and
\* all_events fails, it does not return a shorter list.
C5_UnknownTagFails ==
    /\ \A i \in DOMAIN events : events[i].variant \in EventVariants
    /\ (/\ AllEventsDone
        /\ \E i \in DOMAIN AllLines :
             ~IoFaultAt(AllLines[i]) /\ HasUnknownTag(LineAt(AllLines[i])))
       => /\ outcome = "returned"
          /\ ~result.ok
          /\ FirstUndecodable # 0
          /\ (/\ NoIoFaultBefore(FirstUndecodable)
              /\ HasUnknownTag(LineAt(AllLines[FirstUndecodable])))
             => /\ result.err.inner.cause = "unknown variant"
                /\ result.err.inner.variant =
                     LineAt(AllLines[FirstUndecodable]).v["event"].v

\* An unknown tag behind a line that decoded.
C5_Witness ==
    /\ AllEventsDone
    /\ FirstUndecodable = 2
    /\ HasUnknownTag(LineAt(AllLines[2]))
    /\ Len(events) = 1
    /\ ~result.ok
    /\ result.err.inner.variant = "Bogus"

C8_FailureNamesFileAndLine ==
    (AllEventsDone /\ outcome = "returned" /\ ~result.ok
       /\ "inner" \in DOMAIN result.err)
    => /\ {"file", "line"} \subseteq DOMAIN result.err
       /\ result.err.file = paths[fileIdx]
       /\ result.err.line = lineIdx

(* ------------------------- claims on the decoder ----------------------- *)

Decoded == pc = "decoded"

\* The focus's object without the keys the focus does not model.
Modelled(focus, obj) ==
    [n \in DOMAIN obj \cap Wires(FieldsOf(focus)) |-> obj[n]]

\* The value decoded for the focus of the input, inside the decoded event.
FocusValue == Nav(output.val, PathOf(input.focus))

\* C6: a field read with bool_from_int is false for 0 and true for 1; any
\* other input is a decode error, which names the invalid value (for an
\* array or an object, the kind of value).
C6_BoolFromInt ==
    (/\ Decoded
     /\ input.focus = Struct("EngineeringModifiers")
     /\ "LessIsGood" \in DOMAIN input.obj
     /\ \A w \in Wires(StructFields("EngineeringModifiers")) \ {"LessIsGood"} :
          w \in DOMAIN input.obj
          /\ input.obj[w] = BaseObj(input.focus)[w])
    => LET x == input.obj["LessIsGood"]
       IN  /\ x = JInt(0) => output.ok /\ FocusValue.less_is_good = FALSE
           /\ x = JInt(1) => output.ok /\ FocusValue.less_is_good = TRUE
           /\ x \notin {JInt(0), JInt(1)}
              => /\ ~output.ok
                 /\ output.err.cause \in {"invalid value", "invalid type"}
                 /\ x.k \in {"int", "float", "str", "bool"}
                    => output.err.unexpected.v = x.v
                 /\ x.k = "null" => output.err.unexpected.u = "Unit"
                 /\ x.k = "arr" => output.err.unexpected.u = "Seq"
                 /\ x.k = "obj" => output.err.unexpected.u = "Map"

\* 256, the least integer that is no u8, is refused and named.
C6_Witness ==
    /\ Decoded
    /\ input.focus = Struct("EngineeringModifiers")
    /\ input.obj = ("LessIsGood" :> JInt(U8Max + 1)) @@ BaseObj(input.focus)
    /\ ~output.ok
    /\ output.err.unexpected = [u |-> "Unsigned", v |-> U8Max + 1]

\* C9: fields that a recognised tag does not model make no difference: a
\* tag without fields decodes to its variant whatever comes with it, and a
\* line decodes to what it decodes to without them, none of them in the
\* decoded value.
C9_ExtraFieldsIgnored ==
    (Decoded /\ input.focus.variant /\ input.focus.name \in EventVariants)
    => LET fields == FieldsOf(input.focus)
       IN  /\ input.focus.name \in UnitVariants
              => output = Ok([variant |-> input.focus.name])
           /\ output = from_str(TEvent,
                         Wrap(input.focus, Modelled(input.focus, input.obj)))
           /\ output.ok
              => DOMAIN output.val
                   = {"variant"} \cup {fields[i].rust : i \in DOMAIN fields}

\* SendText with a field it does not model.
C9_Witness ==
    /\ Decoded
    /\ input.focus = Variant("SendText")
    /\ DOMAIN input.obj = {"timestamp", "To", "Message", "StationName"}
    /\ output = Ok([variant |-> "SendText", to |-> "x", message |-> "x",
                    timestamp |-> [minutes |-> 1, offset |-> 0]])

\* The defaults the data model gives: the empty list, zero, false, the
\* empty string, and no value for an optional one.
ClaimedDefault(ty) ==
    CASE ty.t = "Vec" -> << >>
      [] ty.t \in {"u32", "u64"} -> 0
      [] ty.t = "bool" -> FALSE
      [] ty.t = "String" -> ""
      [] ty.t = "Option" -> [some |-> FALSE]

\* The fields declared with a default: those the claim lists.
ClaimedDefaulted(focus) ==
    CASE focus = Variant("Cargo") -> {"Inventory"}
      [] focus = Variant("Loadout") -> {"ModulesValue", "Hot"}
      [] focus = Struct("Module") ->
            {"Value", "AmmoInClip", "AmmoInHopper", "Engineering"}
      [] focus = Struct("Engineering") -> {"Engineer", "ExperimentalEffect"}
      [] focus = Struct("EngineeringModifiers") -> {"Value"}
      [] focus = Struct("CargoEntry") -> {"MissionID"}
      [] focus = Struct("BankAccountStatistics") ->
            {"Spent_On_Suits", "Spent_On_Weapons", "Spent_On_Suit_Consumables",
             "Suits_Owned", "Weapons_Owned", "Spent_On_Premium_Stock",
             "Premium_Stock_Bought"}
      [] OTHER -> {}

\* C10: a field declared with a default decodes to the default when the
\* line leaves it out, as it does when the line gives the default, and to
\* the value the line gives otherwise; a line that leaves out a field
\* declared without one fails to decode.
C10_Defaults ==
    (/\ Decoded
     /\ \/ input.focus.variant /\ input.focus.name \in StructVariants
        \/ ~input.focus.variant /\ input.focus.name \in FocusStructs)
    => LET fields == FieldsOf(input.focus)
           obj == input.obj
           absent == {i \in DOMAIN fields : fields[i].wire \notin DOMAIN obj}
           required == {i \in DOMAIN fields :
                          fields[i].wire \notin ClaimedDefaulted(input.focus)}
           wellTyped == \A i \in DOMAIN fields \ absent :
                          DecodeTy(fields[i].ty, obj[fields[i].wire]).ok
       IN  /\ absent \cap required # {}
              => /\ ~output.ok
                 /\ wellTyped
                    => /\ output.err.cause = "missing field"
                       /\ \E i \in absent \cap required :
                            output.err.field = fields[i].wire
           /\ (absent \cap required = {} /\ wellTyped) => output.ok
           /\ output.ok
              => \A i \in DOMAIN fields :
                   LET f == fields[i]
                   IN  /\ i \in absent
                          => /\ FocusValue[f.rust] = ClaimedDefault(f.ty)
                             /\ output = from_str(TEvent,
                                  Wrap(input.focus,
                                       (f.wire :> DefaultJson(f.ty)) @@ obj))
                       /\ (i \notin absent /\ f.ty.t \in {"u32", "u64", "bool", "String"})
                          => FocusValue[f.rust] = obj[f.wire].v
                       /\ (i \notin absent /\ f.ty = TOption(TU32))
                          => FocusValue[f.rust]
                               = IF obj[f.wire] = JNull THEN [some |-> FALSE]
                                 ELSE [some |-> TRUE, val |-> obj[f.wire].v]

\* A Loadout line without ModulesValue.
C10_Witness ==
    /\ Decoded
    /\ input.focus = Variant("Loadout")
    /\ input.obj = [w \in DOMAIN BaseObj(input.focus) \ {"ModulesValue"} |->
                      BaseObj(input.focus)[w]]
    /\ output.ok
    /\ output.val.modules_value = 0
    /\ output.val.hot = TRUE

(* --------------------- claims on the failure policy -------------------- *)

\* The line is read and decodes.
Decodes(at) == ~IoFaultAt(at) /\ from_str(TEvent, LineAt(at)).ok

\* The lines that decode and those that do not, each in file-then-line order.
DecodableLines == SelectSeq(AllLines, Decodes)
UndecodableLines == SelectSeq(AllLines, Undecodable)

\* Every journal file opens and every line of it is read.
NoIoFault ==
    /\ Unopened = {}
    /\ \A i \in DOMAIN AllLines : ~IoFaultAt(AllLines[i])

\* C11, as claimed: all_events can be asked to skip and collect; a line that
\* fails to decode then does not end the call, which returns the events of
\* the lines that decode, in file-then-line order, together with the
\* failures of the others.
C11_SkipAndCollect ==
    (AllEventsDone /\ NoIoFault /\ FirstUndecodable # 0)
    => /\ outcome = "returned"
       /\ result.ok
       /\ DOMAIN result.val = {"events", "failures"}
       /\ result.val.events =
            [i \in DOMAIN DecodableLines |->
                from_str(TEvent, LineAt(DecodableLines[i])).val]
       /\ result.val.failures =
            [i \in DOMAIN UndecodableLines |->
                from_str(TEvent, LineAt(UndecodableLines[i])).err]

\* The failure kinds of the error taxonomy.
FailureKinds == {"DiscoveryError", "DecodeError", "IOError"}

\* What goes wrong with one line that all_events reads.
LineFault(line) ==
    IF line = BadUtf8 THEN "IOError"
    ELSE IF ~from_str(TEvent, line).ok THEN "DecodeError"
    ELSE "none"

\* What goes wrong first with one journal file: it does not open, or the
\* first of its lines that cannot be read or decoded.
FileFault(n) ==
    IF ~dir[n].opens THEN "IOError"
    ELSE LET ls == dir[n].lines
             bad == {i \in DOMAIN ls : LineFault(ls[i]) # "none"}
         IN  IF bad = {} THEN "none"
             ELSE LineFault(ls[CHOOSE i \in bad : \A h \in bad : i <= h])

\* What goes wrong first with the journal files, in ascending order.
FirstFault ==
    LET bad == {i \in DOMAIN Ascending : FileFault(Ascending[i]) # "none"}
    IN  IF bad = {} THEN "none"
        ELSE FileFault(Ascending[CHOOSE i \in bad : \A h \in bad : i <= h])

\* The kind of failure the operation called meets in this directory, "none"
\* when it meets none.
Cause ==
    IF ~dirOk THEN "DiscoveryError"
    ELSE IF op = "latest_journal_path"
    THEN (IF JournalSet = {} THEN "DiscoveryError" ELSE "none")
    ELSE IF op = "all_events" THEN FirstFault
    ELSE "none"

\* The kinds of failure an operation can meet.
KindsOf(operation) ==
    IF operation = "all_events" THEN FailureKinds ELSE {"DiscoveryError"}

\* The io::Error values the operations return for a failure of each kind:
\* a decode failure holds the serde_json error; a directory that cannot be
\* read and a file that cannot be opened hold the ErrorKind the operating
\* system gave; a line that is no UTF-8 text holds InvalidData.
IsFailureOf(kind, err) ==
    CASE kind = "DecodeError" -> "inner" \in DOMAIN err
      [] kind = "DiscoveryError" ->
            "inner" \notin DOMAIN err /\ err.kind \in OsErrorKinds
      [] kind = "IOError" ->
            "inner" \notin DOMAIN err
                /\ err.kind \in OsErrorKinds \cup {"InvalidData"}

\* C12, as claimed: a failure of each of the three kinds ends the call by
\* returning a failure, never a success of some or no events, and the value
\* returned is one that no failure of another kind returns to that caller.
C12_TypedFailures ==
    (pc = "done" /\ Cause # "none")
    => /\ outcome = "returned"
       /\ ~result.ok
       /\ IsFailureOf(Cause, result.err)
       /\ \A k \in KindsOf(op) \ {Cause} : ~IsFailureOf(k, result.err)

\* The parts of C12 the code keeps: every failure ends the call without a
\* success, and a failure returned is one of its kind's values.
C12_NoSilentRecovery ==
    (pc = "done" /\ Cause # "none")
    => /\ outcome = "returned" => (~result.ok /\ IsFailureOf(Cause, result.err))
       /\ outcome # "returned" => (op = "latest_journal_path" /\ dirOk)

(* ----------------------- claims on unfiltered lines -------------------- *)

\* The line is empty or holds white space alone.
IsBlank(line) == line \in {RawText(""), RawText(" ")}

\* The lines of the journal files that are blank.
BlankLines ==
    {i \in DOMAIN AllLines : ~IoFaultAt(AllLines[i]) /\ IsBlank(LineAt(AllLines[i]))}

\* C13: all_events hands every line it reads to the decoder, in
\* file-then-line order, none passed over; a blank line in a journal file
\* ends the call with a failure, the decode failure of the end of input when
\* nothing fails before it; a successful result holds as many events as the
\* journal files hold lines, none when there is no journal file.
C13_EveryLineDecoded ==
    /\ (op = "all_events" /\ dirOk)
       => /\ Len(decoded) <= Len(AllLines)
          /\ \A i \in DOMAIN decoded : decoded[i] = AllLines[i]
          /\ Len(events) <= Len(decoded)
          /\ pc = "line"
             => decoded = SelectSeq(AllLines,
                    LAMBDA at : \/ LexBefore(at[1], paths[fileIdx])
                                \/ at[1] = paths[fileIdx] /\ at[2] < lineIdx)
    /\ (AllEventsDone /\ BlankLines # {})
       => /\ outcome = "returned"
          /\ ~result.ok
          /\ FirstUndecodable # 0
          /\ (FirstUndecodable \in BlankLines /\ NoIoFaultBefore(FirstUndecodable))
             => result.err = ToIoError(EofError)
    /\ (AllEventsDone /\ outcome = "returned" /\ result.ok)
       => /\ Len(result.val) = Len(AllLines)
          /\ decoded = AllLines
          /\ JournalSet = {} => result = Ok(<< >>)

\* A blank last line behind the lines that decoded.
C13_Witness ==
    /\ AllEventsDone
    /\ Len(AllLines) >= 2
    /\ BlankLines = {Len(AllLines)}
    /\ FirstUndecodable = Len(AllLines)
    /\ Len(events) = Len(AllLines) - 1
    /\ result = Err(ToIoError(EofError))
====
